---- MODULE Spec2Model ----
(***************************************************************************)
(* State-machine model of model/tacotron_old.py: class Tacotron2.          *)
(*                                                                         *)
(* Tensors are nested sequences of integers, indexed from 1 (the source's  *)
(* index k is position k+1 here; At0 reads with the source's index).  A    *)
(* float tensor holds integer-valued floats, so 0.0 is 0 and 1e3 is 1000.  *)
(* Every method takes the object as its first parameter, as in the source: *)
(* self is the record of the object's fields.                              *)
(* The collaborators that live outside this file (Encoder, Decoder,        *)
(* Postnet, get_mask_from_lengths, mode, text_to_sequence) are modelled    *)
(* from their documented contract as deterministic functions.              *)
(***************************************************************************)
EXTENDS Integers, Sequences, FiniteSets, TLC

\* ------------------------------------------------------------------ bounds
MaxBatch == 2      \* batch sizes 1..MaxBatch
MaxT == 3          \* output (mel) lengths 1..MaxT
MaxW == 2          \* padded text widths 1..MaxW
MaxFrames == 2     \* hps.n_frames_per_step ranges over 1..MaxFrames
MaxMels == 2       \* hps.num_mels
MaxSymbols == 2    \* hps.n_symbols: symbol IDs 0..MaxSymbols-1
MaxText == 2       \* raw texts of 0..MaxText characters

\* ------------------------------------------------------------------- state
VARIABLES
    num_mels,           \* self.num_mels
    mask_padding,       \* self.mask_padding
    n_frames_per_step,  \* self.n_frames_per_step
    embedding,          \* self.embedding.weight: symbol ID -> row
    op,                 \* the entry point that ran last
    text,               \* infer's argument
    inputs,             \* symbol-ID batch of forward/inference/teacher_infer
    mels,               \* mel targets of forward/teacher_infer
    text_lengths,       \* the length vector handed to encoder and decoder
    sort_idx,           \* teacher_infer's discarded sort indices (`_`)
    decoded,            \* the list handed to parse_output, before masking
    outputs,            \* the same list after parse_output (filled in place)
    output_lengths,     \* parse_output's output_lengths (<<>> when None)
    has_lengths,        \* output_lengths is not None
    mask_cols,          \* columns of the gate mask mask[:, 0, slice]
    raised,             \* the call ended in an exception
    batch,              \* parse_batch's argument
    ret                 \* the value the call returned (<<>> when it raised)

persistent == <<num_mels, mask_padding, n_frames_per_step, embedding>>
call == <<op, text, inputs, mels, text_lengths, sort_idx, decoded, outputs,
          output_lengths, has_lengths, mask_cols, raised, batch, ret>>
vars == <<persistent, call>>

\* the object, as the methods receive it
Self ==
    [num_mels |-> num_mels, mask_padding |-> mask_padding,
     n_frames_per_step |-> n_frames_per_step, embedding |-> embedding]

\* --------------------------------------------------------- tensor helpers
At0(x, k) == x[k + 1]

\* a tensor held in a local variable: x itself, computed once
local(x) == IF x = x THEN x ELSE x

RECURSIVE MaxOf(_)
MaxOf(s) ==
    IF Len(s) = 1 THEN s[1]
    ELSE LET m == MaxOf(Tail(s)) IN IF s[1] >= m THEN s[1] ELSE m

RECURSIVE SumSeq(_)
SumSeq(s) == IF Len(s) = 0 THEN 0 ELSE s[1] + SumSeq(Tail(s))

Size0(x) == Len(x)
Size1(x) == IF Len(x) = 0 THEN 0 ELSE Len(x[1])
Size2(x) == IF Size1(x) = 0 THEN 0 ELSE Len(x[1][1])

\* torch broadcasting of a mask dimension m onto a tensor dimension d
Broadcasts(m, d) == m = d \/ m = 1
BIdx(m, i) == IF m = 1 THEN 1 ELSE i

\* tensor.masked_fill_(mask, value) on a (B, C, T) tensor
CanFill3(x, mask) ==
    /\ Broadcasts(Size0(mask), Size0(x))
    /\ Broadcasts(Size1(mask), Size1(x))
    /\ Broadcasts(Size2(mask), Size2(x))

masked_fill3(x, mask, value) ==
    [b \in 1..Size0(x) |->
        [c \in 1..Size1(x) |->
            [t \in 1..Size2(x) |->
                IF mask[BIdx(Size0(mask), b)][BIdx(Size1(mask), c)][BIdx(Size2(mask), t)]
                THEN value ELSE x[b][c][t]]]]

\* tensor.masked_fill_(mask, value) on a (B, G) tensor
CanFill2(x, mask) ==
    /\ Broadcasts(Size0(mask), Size0(x))
    /\ Broadcasts(Size1(mask), Size1(x))

masked_fill2(x, mask, value) ==
    [b \in 1..Size0(x) |->
        [g \in 1..Size1(x) |->
            IF mask[BIdx(Size0(mask), b)][BIdx(Size1(mask), g)]
            THEN value ELSE x[b][g]]]

\* ------------------------------------------------------------ parse_output
MelFill == 0
GateFill == 1000

\* utils.util.get_mask_from_lengths(lengths, pad): mask[b][t] <=> t < lengths[b]
get_mask_from_lengths(lengths, pad) ==
    [b \in 1..Len(lengths) |->
        [t \in 1..MaxOf(lengths) |-> (t - 1) < lengths[b]]]

\* line 41: mask = ~get_mask_from_lengths(output_lengths, True)   (B, T)
padding_mask_inverted(lens) ==
    get_mask_from_lengths(lens, TRUE)

padding_mask(lens) ==
    LET m == get_mask_from_lengths(lens, TRUE)
    IN  [b \in 1..Size0(m) |-> [t \in 1..Size1(m) |-> ~m[b][t]]]

\* lines 42-43: expand to (num_mels, B, T), permute to (B, num_mels, T)
expand_permute(self, mask) ==
    [b \in 1..Size0(mask) |-> [c \in 1..self.num_mels |-> mask[b]]]

\* line 47: slice = torch.arange(0, mask.size(2), n_frames_per_step)
arange_unit(lo, hi, step) ==
    [j \in 1..(hi - lo) |-> lo + (j - 1)]

arange(lo, hi, step) ==
    [j \in 1..((hi - lo + step - 1) \div step) |-> lo + (j - 1) * step]

\* line 48: mask[:, 0, slice]
gate_mask_any(self, mask3, slice) ==
    [b \in 1..Size0(mask3) |->
        [j \in 1..Len(slice) |->
            \E t \in 1..Size2(mask3) :
                /\ t - 1 >= slice[j]
                /\ t - 1 < slice[j] + self.n_frames_per_step
                /\ mask3[b][1][t]]]

gate_mask(self, mask3, slice) ==
    [b \in 1..Size0(mask3) |->
        [j \in 1..Len(slice) |-> At0(At0(mask3[b], 0), slice[j])]]

\* line 40: if self.mask_padding and output_lengths is not None
should_mask_lengths_only(self, has) == has

should_mask_flag_only(self, has) == self.mask_padding

should_mask(self, has) == self.mask_padding /\ has

\* lines 39-50.  Result: the list after the in-place fills, whether an
\* exception left the method, and the width of the gate mask.
parse_output(self, outs, lens, has) ==
    IF ~should_mask(self, has)
    THEN [outputs |-> outs, raised |-> FALSE, mask_cols |-> 0]
    ELSE IF ~has
    THEN [outputs |-> outs, raised |-> TRUE, mask_cols |-> 0]
    ELSE
    LET mask == local(expand_permute(self, padding_mask(lens)))
        slice == arange(0, Size2(mask), self.n_frames_per_step)
        gmask == local(gate_mask(self, mask, slice))
        o1 == [outs EXCEPT ![1] = masked_fill3(outs[1], mask, MelFill)]
        o2 == [o1 EXCEPT ![2] = masked_fill3(outs[2], mask, MelFill)]
        o3 == [o2 EXCEPT ![3] = masked_fill2(outs[3], gmask, GateFill)]
    IN  IF ~CanFill3(outs[1], mask)
        THEN [outputs |-> outs, raised |-> TRUE, mask_cols |-> 0]
        ELSE IF ~CanFill3(outs[2], mask)
        THEN [outputs |-> o1, raised |-> TRUE, mask_cols |-> 0]
        ELSE IF ~CanFill2(outs[3], gmask)
        THEN [outputs |-> o2, raised |-> TRUE, mask_cols |-> Len(slice)]
        ELSE [outputs |-> o3, raised |-> FALSE, mask_cols |-> Len(slice)]

\* ------------------------------------------------------------ collaborators
Symbols == 0..(MaxSymbols - 1)

\* lines 17-21: nn.Embedding(n_symbols, symbols_embedding_dim), uniform_(-val, val)
EmbeddingInits ==
    { [s \in Symbols |-> <<s + 1>>], [s \in Symbols |-> <<0 - (s + 1)>>] }

EmbDim(self) == Len(self.embedding[0])

\* self.embedding(x): (B, W) -> (B, W, D)
embed(self, x) ==
    [b \in 1..Len(x) |-> [i \in 1..Len(x[b]) |-> self.embedding[x[b][i]]]]

\* .transpose(1, 2): (B, W, D) -> (B, D, W)
transpose12(self, x) ==
    [b \in 1..Len(x) |->
        [d \in 1..EmbDim(self) |-> [i \in 1..Len(x[b]) |-> x[b][i][d]]]]

\* Encoder.forward(embedded, lengths): (B, D, W) -> memory (B, W), positions
\* beyond an item's length masked out
Encoder(x, lengths) ==
    [b \in 1..Len(x) |->
        [i \in 1..Size2(x) |->
            IF i <= lengths[b]
            THEN SumSeq([d \in 1..Len(x[b]) |-> x[b][d][i]]) ELSE 0]]

\* Encoder.inference(embedded): no lengths
Encoder_inference(x) ==
    [b \in 1..Len(x) |->
        [i \in 1..Len(x[b][1]) |-> SumSeq([d \in 1..Len(x[b]) |-> x[b][d][i]])]]

\* attention context of item b over its memory positions below length n
Context(memory, b, n) ==
    SumSeq([i \in 1..Len(memory[b]) |-> IF i <= n THEN memory[b][i] ELSE 0])

\* Decoder.forward(memory, mels, memory_lengths), teacher forced:
\* mel (B, num_mels, T), gate (B, T / n_frames_per_step),
\* alignments (B, T / n_frames_per_step, W)
Decoder(self, memory, targets, memory_lengths) ==
    LET T == Size2(targets)
        G == T \div self.n_frames_per_step
        ctx == [b \in 1..Len(memory) |-> Context(memory, b, memory_lengths[b])]
    IN  << [b \in 1..Len(memory) |-> [c \in 1..self.num_mels |-> [t \in 1..T |->
                1 + ((ctx[b] + targets[b][c][t] + c + t) % 3)]]],
           [b \in 1..Len(memory) |-> [g \in 1..G |-> 1 + ((ctx[b] + g) % 3)]],
           [b \in 1..Len(memory) |-> [g \in 1..G |->
                [i \in 1..Len(memory[b]) |-> 1 + ((memory[b][i] + g + i) % 3)]]] >>

\* Decoder.inference(memory): free running, the decoder decides when to stop
Decoder_inference(self, memory) ==
    LET ctx == [b \in 1..Len(memory) |-> Context(memory, b, Len(memory[b]))]
        G == 1 + (SumSeq(ctx) % 2)
        T == G * self.n_frames_per_step
    IN  << [b \in 1..Len(memory) |-> [c \in 1..self.num_mels |-> [t \in 1..T |->
                1 + ((ctx[b] + c + t) % 3)]]],
           [b \in 1..Len(memory) |-> [g \in 1..G |-> 1 + ((ctx[b] + g) % 3)]],
           [b \in 1..Len(memory) |-> [g \in 1..G |->
                [i \in 1..Len(memory[b]) |-> 1 + ((memory[b][i] + g + i) % 3)]]] >>

\* Postnet.forward(mel): the residual, same shape as mel
Postnet(mel) ==
    [b \in 1..Size0(mel) |-> [c \in 1..Size1(mel) |-> [t \in 1..Size2(mel) |->
        1 + ((mel[b][c][t] + c) % 2)]]]

\* mel_outputs + mel_outputs_postnet
tensor_add(x, y) ==
    [b \in 1..Size0(x) |-> [c \in 1..Size1(x) |-> [t \in 1..Size2(x) |->
        x[b][c][t] + y[b][c][t]]]]

\* lines 63-64, 76-77, 96-97
postnet_residual(mel) == tensor_add(mel, Postnet(mel))

\* lines 67, 80, 100: [mel_outputs, mel_outputs_postnet, gate_outputs, alignments]
output_list(dec) ==
    local(<<dec[1], postnet_residual(dec[1]), dec[2], dec[3]>>)

\* ----------------------------------------------------------------- forward
\* lines 52-68
forward(self, text_inputs, lengths, targets, max_len, out_lengths) ==
    LET embedded_inputs == local(transpose12(self, embed(self, text_inputs)))
        encoder_outputs == local(Encoder(embedded_inputs, lengths))
        dec == local(Decoder(self, encoder_outputs, targets, lengths))
        list == output_list(dec)
    IN  [decoded |-> list, text_lengths |-> lengths,
         parsed |-> parse_output(self, list, out_lengths, TRUE)]

\* --------------------------------------------------------------- inference
\* lines 70-82
inference(self, x) ==
    LET embedded_inputs == local(transpose12(self, embed(self, x)))
        encoder_outputs == local(Encoder_inference(embedded_inputs))
        dec == local(Decoder_inference(self, encoder_outputs))
        list == output_list(dec)
    IN  [decoded |-> list, text_lengths |-> <<>>,
         parsed |-> parse_output(self, list, <<>>, FALSE)]

\* ----------------------------------------------------------- teacher_infer
\* torch.sort(values, dim = 0, descending = True): the sorted values
RECURSIVE SortDescending(_)
SortDescending(s) ==
    IF Len(s) = 0 THEN <<>>
    ELSE LET m == MaxOf(s)
             k == CHOOSE j \in 1..Len(s) : s[j] = m
         IN  <<m>> \o SortDescending(
                 [j \in 1..(Len(s) - 1) |-> IF j < k THEN s[j] ELSE s[j + 1]])

\* the index vectors torch.sort may return with them: any permutation that
\* sorts the values (stable = False leaves the order of ties open)
SortIndices(s) ==
    { p \in [1..Len(s) -> 1..Len(s)] :
        /\ \A i, j \in 1..Len(s) : i # j => p[i] # p[j]
        /\ [i \in 1..Len(s) |-> s[p[i]]] = SortDescending(s) }

\* line 85: [len(x) for x in inputs]
row_lengths_batch(x) == [b \in 1..Len(x) |-> Len(x)]

row_lengths(x) == [b \in 1..Len(x) |-> Len(x[b])]

\* line 89: the rows that are embedded, in the order they are embedded
rows_sorted(x, idx) == [b \in 1..Len(x) |-> x[idx[b]]]

rows_processed(x, idx) == x

\* lines 84-100
teacher_infer(self, x, targets, idx) ==
    LET il == local(SortDescending(row_lengths(x)))
        embedded_inputs ==
            local(transpose12(self, embed(self, rows_processed(x, idx))))
        encoder_outputs == local(Encoder(embedded_inputs, il))
        dec == local(Decoder(self, encoder_outputs, targets, il))
        list == output_list(dec)
    IN  [decoded |-> list, text_lengths |-> il,
         parsed |-> parse_output(self, list, <<>>, FALSE)]

\* ------------------------------------------------------------------- infer
Alphabet == {"a", "b"}

\* text.text_to_sequence(text, cleaners): one symbol ID per character
text_to_sequence(txt) ==
    [i \in 1..Len(txt) |-> IF txt[i] = "a" THEN 0 ELSE 1]

\* line 107: the tuple infer returns
infer_select_swapped(o) == <<o[2], o[1], o[4]>>

infer_select(o) == <<o[1], o[2], o[4]>>

\* lines 102-107
infer(self, txt) ==
    LET sequence == <<text_to_sequence(txt)>>
        r == inference(self, sequence)
    IN  [sequence |-> sequence, inner |-> r,
         ret |-> infer_select(r.parsed.outputs)]

\* ------------------------------------------------------------- parse_batch
\* A batch tensor is [dtype, device, shape, data]; data is the flattened
\* element list, each element [w, h] standing for the number w + h/2
\* (h in {0, 1}), so that a float need not be an integer.
Num(w, h) == [w |-> w, h |-> h]

\* utils.util.mode(tensor): placement on the execution device
mode(t) == [t EXCEPT !.device = "cuda"]

\* tensor.long(): int64, each element truncated toward zero
long_num(x) == Num(IF x.h = 1 /\ x.w < 0 THEN x.w + 1 ELSE x.w, 0)

long(t) ==
    [t EXCEPT !.dtype = "int64",
              !.data = [i \in 1..Len(t.data) |-> long_num(t.data[i])]]

\* tensor.float(): float32; every element of the model is a small multiple
\* of 1/2 and is kept exactly
float_truncating(t) == long(t)

float(t) == [t EXCEPT !.dtype = "float32"]

\* line 30: torch.max(input_lengths.data).item()
item_max(t) ==
    MaxOf([i \in 1..Len(t.data) |-> t.data[i].w])

\* lines 26-37
parse_batch(self, b) ==
    LET text_padded == long(mode(b[1]))
        input_lengths == long(mode(b[2]))
        max_len == item_max(input_lengths)
        mel_padded == float(mode(b[3]))
        gate_padded == float(mode(b[4]))
        out_lengths == long(mode(b[5]))
    IN  << <<text_padded, input_lengths, mel_padded, max_len, out_lengths>>,
           <<mel_padded, gate_padded>> >>

\* ------------------------------------------------------------------ inputs
Seeds == {0, 1}

\* a padded symbol-ID batch (B, W)
TextBatch(seed, B, W) ==
    [b \in 1..B |-> [i \in 1..W |-> (seed + b + i) % MaxSymbols]]

\* padded mel targets (B, num_mels, T)
MelTargets(self, seed, B, T) ==
    [b \in 1..B |-> [c \in 1..self.num_mels |-> [t \in 1..T |->
        ((seed + b + 2 * c + t) % 4) - 2]]]

\* a list [mel, mel_postnet, gate, alignments] as a decoder produces it
SampleOutputs(self, seed, B, T) ==
    LET G == T \div self.n_frames_per_step
    IN  << [b \in 1..B |-> [c \in 1..self.num_mels |-> [t \in 1..T |->
                1 + ((seed + b + c + t) % 3)]]],
           [b \in 1..B |-> [c \in 1..self.num_mels |-> [t \in 1..T |->
                2 + ((seed + b + c + 2 * t) % 3)]]],
           [b \in 1..B |-> [g \in 1..G |-> 1 + ((seed + b + g) % 3)]],
           [b \in 1..B |-> [g \in 1..G |-> <<1 + ((seed + g) % 2)>>]] >>

\* source lengths of a sorted batch of width W: all W, or decreasing from W
TextLengthChoices(B, W) ==
    { [b \in 1..B |-> W],
      [b \in 1..B |-> IF W - b + 1 >= 1 THEN W - b + 1 ELSE 1] }

\* output lengths of a batch padded to T: all T, or decreasing from T
OutLengthChoices(B) ==
    UNION { { [b \in 1..B |-> T],
              [b \in 1..B |-> IF T - b + 1 >= 1 THEN T - b + 1 ELSE 1] }
            : T \in 1..MaxT }

Texts ==
    UNION { [1..n -> Alphabet] : n \in 0..MaxText }

IntTensor(dtype, vals) ==
    [dtype |-> dtype, device |-> "cpu", shape |-> <<Len(vals)>>,
     data |-> [i \in 1..Len(vals) |-> Num(vals[i], 0)]]

\* a 5-tuple as the data loader's collate function builds it
SampleBatch(self, seed, in_lengths, wide) ==
    LET B == Len(in_lengths)
        W == MaxOf(in_lengths)
        T == 1 + ((seed + B) % MaxT)
        idt == IF wide THEN "int64" ELSE "int32"
        fdt == IF wide THEN "float64" ELSE "float32"
    IN  << [IntTensor(idt, [k \in 1..(B * W) |-> (seed + k) % MaxSymbols])
                EXCEPT !.shape = <<B, W>>],
           IntTensor(idt, in_lengths),
           [dtype |-> fdt, device |-> "cpu", shape |-> <<B, self.num_mels, T>>,
            data |-> [k \in 1..(B * self.num_mels * T) |->
                        Num(((seed + k) % 5) - 3, k % 2)]],
           [dtype |-> fdt, device |-> "cpu", shape |-> <<B, T>>,
            data |-> [k \in 1..(B * T) |-> Num(IF k % T = 0 THEN 1 ELSE 0, 0)]],
           IntTensor(idt, [b \in 1..B |-> IF b = 1 THEN T ELSE 1 + ((seed + b) % T)]) >>

\* -------------------------------------------------------------------- Init
\* no call is held: the arguments, locals and result of a call are empty
NoCall(o, t, x, m, tl, si, d, outs, ol, h, mc, r, b, v) ==
    /\ o = "init"
    /\ t = <<>>
    /\ x = <<>>
    /\ m = <<>>
    /\ tl = <<>>
    /\ si = <<>>
    /\ d = <<>>
    /\ outs = <<>>
    /\ ol = <<>>
    /\ h = FALSE
    /\ mc = 0
    /\ r = FALSE
    /\ b = <<>>
    /\ v = <<>>

Init ==
    /\ num_mels = MaxMels
    /\ mask_padding \in BOOLEAN
    /\ n_frames_per_step \in 1..MaxFrames
    /\ embedding \in EmbeddingInits
    /\ NoCall(op, text, inputs, mels, text_lengths, sort_idx, decoded, outputs,
              output_lengths, has_lengths, mask_cols, raised, batch, ret)

\* ----------------------------------------------------------------- actions
\* a method that runs the encoder/decoder pipeline r and returns value
Completed(name, txt, x, targets, idx, lens, has, r, value) ==
    /\ op' = name
    /\ text' = txt
    /\ inputs' = x
    /\ mels' = targets
    /\ text_lengths' = r.text_lengths
    /\ sort_idx' = idx
    /\ decoded' = r.decoded
    /\ outputs' = r.parsed.outputs
    /\ output_lengths' = lens
    /\ has_lengths' = has
    /\ mask_cols' = r.parsed.mask_cols
    /\ raised' = r.parsed.raised
    /\ ret' = IF r.parsed.raised THEN <<>> ELSE value
    /\ batch' = <<>>
    /\ UNCHANGED persistent

ParseBatch(b) ==
    /\ op' = "parse_batch"
    /\ batch' = b
    /\ ret' = parse_batch(Self, b)
    /\ raised' = FALSE
    /\ text' = <<>>
    /\ inputs' = <<>>
    /\ mels' = <<>>
    /\ text_lengths' = <<>>
    /\ sort_idx' = <<>>
    /\ decoded' = <<>>
    /\ outputs' = <<>>
    /\ output_lengths' = <<>>
    /\ has_lengths' = FALSE
    /\ mask_cols' = 0
    /\ UNCHANGED persistent

ParseOutputRan(outs, lens, has, parsed) ==
    Completed("parse_output", <<>>, <<>>, <<>>, <<>>, lens, has,
              [decoded |-> outs, text_lengths |-> <<>>, parsed |-> parsed],
              parsed.outputs)

ParseOutput(outs, lens, has) ==
    ParseOutputRan(outs, lens, has, parse_output(Self, outs, lens, has))

ForwardRan(x, targets, out_lengths, r) ==
    Completed("forward", <<>>, x, targets, <<>>, out_lengths, TRUE, r,
              r.parsed.outputs)

Forward(x, lengths, targets, out_lengths) ==
    ForwardRan(x, targets, out_lengths,
               forward(Self, x, lengths, targets, MaxOf(lengths), out_lengths))

InferenceRan(x, r) ==
    Completed("inference", <<>>, x, <<>>, <<>>, <<>>, FALSE, r, r.parsed.outputs)

InferenceReinit(x) ==
    /\ op' = "inference"
    /\ embedding' = [s \in Symbols |-> <<0>>]
    /\ UNCHANGED <<num_mels, mask_padding, n_frames_per_step, text, inputs,
                   mels, text_lengths, sort_idx, decoded, outputs,
                   output_lengths, has_lengths, mask_cols, raised, batch, ret>>

Inference(x) ==
    InferenceRan(x, inference(Self, x))

TeacherInferRan(x, targets, idx, r) ==
    Completed("teacher_infer", <<>>, x, targets, idx, <<>>, FALSE, r,
              r.parsed.outputs)

TeacherInfer(x, targets, idx) ==
    TeacherInferRan(x, targets, idx, teacher_infer(Self, x, targets, idx))

InferRan(txt, r) ==
    Completed("infer", txt, r.sequence, <<>>, <<>>, <<>>, FALSE, r.inner, r.ret)

Infer(txt) ==
    InferRan(txt, infer(Self, txt))

\* the caller is done with a finished call: its arguments, locals and result
\* go out of scope, and only the object's fields remain
Release ==
    /\ op # "init"
    /\ NoCall(op', text', inputs', mels', text_lengths', sort_idx', decoded',
              outputs', output_lengths', has_lengths', mask_cols', raised',
              batch', ret')
    /\ UNCHANGED persistent

\* ---------------------------------------------------------- specifications
\* the object is ready for a call
Ready == op = "init"

CallParseBatch ==
    /\ Ready
    /\ \E B \in 1..MaxBatch, seed \in Seeds, wide \in BOOLEAN :
           \E in_lengths \in [1..B -> 1..MaxW] :
               ParseBatch(SampleBatch(Self, seed, in_lengths, wide))

CallParseOutput ==
    /\ Ready
    /\ \E B \in 1..MaxBatch, seed \in Seeds, has \in BOOLEAN :
           \E lens \in [1..B -> 1..MaxT] :
               ParseOutput(SampleOutputs(Self, seed, B, MaxOf(lens)),
                           IF has THEN lens ELSE <<>>, has)

CallForward ==
    /\ Ready
    /\ \E B \in 1..MaxBatch, W \in 1..MaxW, seed \in Seeds :
           \E lengths \in TextLengthChoices(B, W), out_lengths \in OutLengthChoices(B) :
               Forward(TextBatch(seed, B, W), lengths,
                       MelTargets(Self, seed, B, MaxOf(out_lengths)), out_lengths)

CallInference ==
    /\ Ready
    /\ \E B \in 1..MaxBatch, W \in 1..MaxW, seed \in Seeds :
           Inference(TextBatch(seed, B, W))

CallTeacherInfer ==
    /\ Ready
    /\ \E B \in 1..MaxBatch, W \in 1..MaxW, seed \in Seeds, T \in 1..MaxT :
           \E idx \in SortIndices(row_lengths(TextBatch(seed, B, W))) :
               TeacherInfer(TextBatch(seed, B, W), MelTargets(Self, seed, B, T), idx)

CallInfer ==
    /\ Ready
    /\ \E txt \in Texts : Infer(txt)

Next ==
    \/ CallParseBatch
    \/ CallParseOutput
    \/ CallForward
    \/ CallInference
    \/ CallTeacherInfer
    \/ CallInfer
    \/ Release

Spec == Init /\ [][Next]_vars

NextParseBatch == CallParseBatch \/ Release
SpecParseBatch == Init /\ [][NextParseBatch]_vars

NextParseOutput == CallParseOutput \/ Release
SpecParseOutput == Init /\ [][NextParseOutput]_vars

NextTeacherForced == CallForward \/ CallTeacherInfer \/ Release
SpecTeacherForced == Init /\ [][NextTeacherForced]_vars

NextInference == CallInference \/ CallInfer \/ Release
SpecInference == Init /\ [][NextInference]_vars

\* ------------------------------------------------------------------ claims
Identity(n) == [i \in 1..n |-> i]

\* the lengths are those of an equal-length batch: every entry is the width
EqualLength(x, lengths) ==
    \A b \in 1..Len(x) : lengths[b] = Len(x[b])

NonIncreasing(s) ==
    \A i \in 1..(Len(s) - 1) : s[i] >= s[i + 1]

\* C1: after a masking parse_output returns, every mel value (raw and
\* post-processed) of item b at time t >= L_b is 0.0, and every gate
\* position g of item b sampled at time g * n_frames_per_step >= L_b holds
\* the sentinel 1e3.
C1_PaddingMasked ==
    (op = "parse_output" /\ mask_padding /\ has_lengths /\ ~raised) =>
        \A b \in 1..Len(output_lengths) :
            /\ \A c \in 1..num_mels : \A t \in 0..(Size2(ret[1]) - 1) :
                   t >= output_lengths[b] =>
                       /\ At0(ret[1][b][c], t) = 0
                       /\ At0(ret[2][b][c], t) = 0
            /\ \A g \in 0..(Size1(ret[3]) - 1) :
                   g * n_frames_per_step >= output_lengths[b] =>
                       At0(ret[3][b], g) = 1000

C1_Witness ==
    /\ op = "parse_output" /\ mask_padding /\ has_lengths /\ ~raised
    /\ \E b \in 1..Len(output_lengths) : \E g \in 0..(Size1(ret[3]) - 1) :
           /\ g * n_frames_per_step >= output_lengths[b]
           /\ At0(decoded[3][b], g) # 1000
           /\ At0(ret[3][b], g) = 1000
           /\ At0(decoded[1][b][1], output_lengths[b]) # 0
           /\ At0(ret[1][b][1], output_lengths[b]) = 0

\* C2: parse_output returns the list it was given, every element of the
\* four tensors unchanged, whenever mask_padding is disabled or
\* output_lengths is None.
C2_IdentityWithoutMasking ==
    (op = "parse_output" /\ (~mask_padding \/ ~has_lengths)) =>
        /\ ~raised
        /\ ret = decoded
        /\ outputs = decoded

C2_Witness ==
    /\ op = "parse_output" /\ ~mask_padding /\ has_lengths
    /\ \E b \in 1..Len(output_lengths) : output_lengths[b] < Size2(decoded[1])
    /\ ret = decoded

\* C10: a masking parse_output changes nothing but padding: mel values at
\* t < L_b and gate positions g with g * n_frames_per_step < L_b keep their
\* values, and the alignments are never modified.
C10_OnlyPaddingChanged ==
    (op = "parse_output" /\ mask_padding /\ has_lengths) =>
        /\ outputs[4] = decoded[4]
        /\ \A b \in 1..Len(output_lengths) :
            /\ \A c \in 1..num_mels : \A t \in 0..(Size2(decoded[1]) - 1) :
                   t < output_lengths[b] =>
                       /\ At0(outputs[1][b][c], t) = At0(decoded[1][b][c], t)
                       /\ At0(outputs[2][b][c], t) = At0(decoded[2][b][c], t)
            /\ \A g \in 0..(Size1(decoded[3]) - 1) :
                   g * n_frames_per_step < output_lengths[b] =>
                       At0(outputs[3][b], g) = At0(decoded[3][b], g)

C10_Witness ==
    /\ op = "parse_output" /\ mask_padding /\ has_lengths /\ ~raised
    /\ \E b \in 1..Len(output_lengths) : \E g \in 0..(Size1(decoded[3]) - 1) :
           /\ g * n_frames_per_step < output_lengths[b]
           /\ g * n_frames_per_step + n_frames_per_step > output_lengths[b]
           /\ At0(ret[3][b], g) = At0(decoded[3][b], g)
           /\ At0(ret[1][b][1], output_lengths[b]) = 0

\* C5: inference applies no length masking: for every mask_padding it
\* returns the free-running decoder's mel, that mel plus the postnet
\* residual, the decoder's gate and its alignments, nothing filled.
FreeRun(self, x) ==
    Decoder_inference(self, Encoder_inference(transpose12(self, embed(self, x))))

UnmaskedList(dec) ==
    <<dec[1], tensor_add(dec[1], Postnet(dec[1])), dec[2], dec[3]>>

C5_InferenceUnmasked ==
    (op = "inference") =>
        /\ ~raised
        /\ ret = UnmaskedList(FreeRun(Self, inputs))

C5_Witness ==
    /\ op = "inference" /\ mask_padding /\ ~raised
    /\ Len(inputs) = MaxBatch
    /\ Len(ret) = 4
    /\ Size2(ret[1]) > n_frames_per_step

\* C7: infer(text) runs inference on a batch of exactly one row, the
\* symbol-ID sequence of the text, and returns without raising the 3-tuple
\* (mel, mel + postnet, alignments): elements 0, 1 and 3 of inference's
\* result, the gate dropped; the empty string included.
InferenceOf(self, x) == inference(self, x).parsed.outputs

ExpectedInfer(o) == <<At0(o, 0), At0(o, 1), At0(o, 3)>>

C7_InferReturnsTriple ==
    (op = "infer") =>
        /\ ~raised
        /\ Len(inputs) = 1
        /\ inputs[1] = text_to_sequence(text)
        /\ Len(ret) = 3
        /\ ret = ExpectedInfer(InferenceOf(Self, inputs))

C7_Witness ==
    /\ op = "infer" /\ text = <<>> /\ ~raised
    /\ Len(ret) = 3
    /\ Size1(ret[1]) = num_mels

\* C8: parse_batch returns ((symbol IDs, input lengths, mel targets,
\* max_len, output lengths), (mel targets, gate targets)): max_len is the
\* largest input length, the same mel targets are in both halves and no
\* value is changed.
SameValues(t, u) == t.data = u.data /\ t.shape = u.shape

C8_ParseBatchRestructures ==
    (op = "parse_batch") =>
        /\ ~raised
        /\ Len(ret) = 2 /\ Len(ret[1]) = 5 /\ Len(ret[2]) = 2
        /\ SameValues(ret[1][1], batch[1])
        /\ SameValues(ret[1][2], batch[2])
        /\ SameValues(ret[1][3], batch[3])
        /\ SameValues(ret[1][5], batch[5])
        /\ ret[2][1] = ret[1][3]
        /\ SameValues(ret[2][2], batch[4])
        /\ \A i \in 1..Len(batch[2].data) : ret[1][4] >= batch[2].data[i].w
        /\ \E i \in 1..Len(batch[2].data) : ret[1][4] = batch[2].data[i].w

C8_Witness ==
    /\ op = "parse_batch"
    /\ Len(batch[2].data) >= 2
    /\ batch[2].data[1].w < batch[2].data[2].w
    /\ \E i \in 1..Len(batch[3].data) :
           batch[3].data[i].h = 1 /\ batch[3].data[i].w < 0
    /\ ret[1][4] = batch[2].data[2].w

\* C9: no call changes the model's persistent state: the embedding table,
\* num_mels, mask_padding and n_frames_per_step keep their constructed
\* values through every sequence of calls.
C9_PersistentStateUnchanged ==
    [][/\ embedding' = embedding
       /\ num_mels' = num_mels
       /\ mask_padding' = mask_padding
       /\ n_frames_per_step' = n_frames_per_step]_vars

C9_Witness ==
    /\ op = "forward" /\ mask_padding /\ ~raised
    /\ ret # decoded
    /\ embedding \in EmbeddingInits

\* C3 as stated: for equal-length sorted inputs forward returns what
\* teacher_infer returns on the same symbols and mel targets, for every
\* mask_padding and every vector of output lengths.
TeacherInferOf(self, x, targets) ==
    teacher_infer(self, x, targets, Identity(Len(x))).parsed.outputs

C3_ForwardEqualsTeacherInfer ==
    (op = "forward" /\ ~raised /\ EqualLength(inputs, text_lengths)) =>
        ret = TeacherInferOf(Self, inputs, mels)

\* C3 amended: for equal-length sorted inputs teacher_infer returns what
\* forward computes before masking; whenever forward returns, the two
\* results are identical if mask_padding is disabled or no output position
\* is padding (every output length equals the mel time dimension).
C3_EqualUnlessMasked ==
    (op = "forward" /\ EqualLength(inputs, text_lengths)) =>
        /\ decoded = TeacherInferOf(Self, inputs, mels)
        /\ (/\ ~raised
            /\ \/ ~mask_padding
               \/ \A b \in 1..Len(output_lengths) :
                      output_lengths[b] = Size2(mels))
           => ret = TeacherInferOf(Self, inputs, mels)

C3_Witness ==
    /\ op = "forward" /\ ~raised /\ EqualLength(inputs, text_lengths)
    /\ Len(inputs) = MaxBatch /\ Len(inputs[1]) = MaxW
    /\ mask_padding
    /\ \A b \in 1..Len(output_lengths) : output_lengths[b] = Size2(mels)
    /\ Size1(ret[3]) > 0

\* C4 as stated: the length vector is non-increasing, entry i is the
\* length of the row processed at position i, and row i of the returned
\* tensors belongs to the i-th input in the re-sorted order.
SingleRow(self, row, target) ==
    teacher_infer(self, <<row>>, <<target>>, Identity(1)).parsed.outputs

RowsBelongTo(self, x, targets, order, result) ==
    \A i \in 1..Len(x) : \A k \in 1..4 :
        result[k][i] = SingleRow(self, x[order[i]], targets[i])[k][1]

C4_RowsInSortedOrder ==
    (op = "teacher_infer" /\ ~raised) =>
        /\ NonIncreasing(text_lengths)
        /\ \A i \in 1..Len(inputs) : text_lengths[i] = Len(inputs[sort_idx[i]])
        /\ RowsBelongTo(Self, inputs, mels, sort_idx, ret)

\* C4 amended: teacher_infer sorts only the vector of row lengths: the
\* vector handed to encoder and decoder is non-increasing and entry i is
\* the length of the input row at position i, and the rows are processed in
\* the caller's order: row i of the returned tensors belongs to the
\* caller's i-th input.
C4_RowsInCallerOrder ==
    (op = "teacher_infer" /\ ~raised) =>
        /\ NonIncreasing(text_lengths)
        /\ \A i \in 1..Len(inputs) : text_lengths[i] = Len(inputs[i])
        /\ RowsBelongTo(Self, inputs, mels, Identity(Len(inputs)), ret)

C4_Witness ==
    /\ op = "teacher_infer" /\ ~raised
    /\ Len(inputs) >= 2
    /\ sort_idx # Identity(Len(inputs))
    /\ inputs[1] # inputs[2]
    /\ ret[4][1] # ret[4][2]

\* C6 as stated: for every batch forward returns mel tensors of shape
\* (batch, mel-channels, max-output-length) and a gate of shape
\* (batch, max-output-length / frames-per-step), and the gate mask has as
\* many columns as the gate, so masking never fails on a shape mismatch.
ForwardShapes ==
    /\ ~raised
    /\ \A k \in 1..2 :
           /\ Size0(ret[k]) = Len(inputs)
           /\ Size1(ret[k]) = num_mels
           /\ Size2(ret[k]) = MaxOf(output_lengths)
    /\ Size0(ret[3]) = Len(inputs)
    /\ Size1(ret[3]) = MaxOf(output_lengths) \div n_frames_per_step
    /\ mask_padding => mask_cols = Size1(ret[3])

====
